---- MODULE Spec2Model ----
(***************************************************************************)
(* RoadWiseAI retrieval-and-ranking engine (src/intervener_retrieval.py),  *)
(* the knowledge base it ranks (src/intervener_kb.py), the cards and       *)
(* confidence labels of src/intervener_explainer.py, and the entry points  *)
(* that present the ranking: the routes of src/api_server.py and the       *)
(* search handlers of the pages src/main*.py.                              *)
(*                                                                         *)
(* Specifications.  Spec: rankings over every knowledge base.  SpecScore:  *)
(* the pure functions.  SpecSession: one engine called again and again.    *)
(* SpecConcurrent: two callers inside retrieve_and_rank at once.           *)
(* SpecChevron: the blind-curve scenario under any matcher.  SpecPresent:  *)
(* a request on its way through an entry point.  SpecLoad: the knowledge  *)
(* base built row by row from a table, then ranked.                        *)
(*                                                                         *)
(* Texts.  A query is the list of its words (maximal runs of \w            *)
(* characters) and of the gaps between consecutive words: "ws" is a gap of *)
(* whitespace only, "punct" a gap that holds some other non-word character.*)
(* A knowledge-base keyword is the list of its whitespace-separated words. *)
(*                                                                         *)
(* Numbers.  Scores are exact rationals in units of 1/(1000*Den): One is   *)
(* the score 1.0 and Milli(30) the weight 0.03.  Den is a multiple of      *)
(* every possible token count, so the arithmetic mean is exact.            *)
(*                                                                         *)
(* Fuzzy matcher.  rapidfuzz is a library outside the repository.          *)
(* token_set_ratio is modelled by its algorithm on the two word sets; the  *)
(* character-level ratio it falls back to when neither set contains the    *)
(* other is a value below 100 that the variable fuzz fixes per run.        *)
(***************************************************************************)
EXTENDS Integers, Sequences, FiniteSets, TLC

VARIABLES
    kb,      \* the knowledge base the engine was constructed over
    fuzz,    \* the fuzzy matcher in use
    op,      \* the engine method that was called last, "idle" between calls
    args,    \* its arguments
    result,  \* its return value
    memo,    \* an earlier call and its result, kept by the caller
    thr,     \* the concurrent calls of retrieve_and_rank in progress
    req,     \* the request a presentation entry point is handling
    session, \* st.session_state of the main_modern page
    loader   \* InterventionKB.__init__ at work: the table and the row reached

vars == <<kb, fuzz, op, args, result, memo, thr, req, session, loader>>

(* ------------------------------ bounds -------------------------------- *)

\* Longest query, in words, of the exhaustively enumerated queries.
MaxWords == 2

\* Largest number of records in a knowledge base.
MaxKB == 2

(* ------------------------------ texts --------------------------------- *)

\* Python's None for an optional argument.
None == "<None>"

\* Variant: the test is "is not None".
Truthy_is_not_None(s) == s # None

\* bool(s) of an optional string: None and "" are falsy.
Truthy(s) == s # None /\ s # ""

\* str.lower() on the strings of the model.
Lower(s) ==
    CASE s = "The" -> "the"
      [] s = "School" -> "school"
      [] s = "Urban" -> "urban"
      [] s = "URBAN" -> "urban"
      [] s = "RURAL" -> "rural"
      [] s = "High" -> "high"
      [] s = "Medium" -> "medium"
      [] s = "Low" -> "low"
      [] s = "Critical" -> "critical"
      [] OTHER -> s

\* Words the exhaustively enumerated queries are built from.
Vocab == {"The", "curve"}

Gaps == {"ws", "punct"}

RECURSIVE SeqsOfLen(_, _)
SeqsOfLen(S, n) ==
    IF n = 0 THEN {<<>>}
    ELSE {Append(s, x) : s \in SeqsOfLen(S, n - 1), x \in S}

QueriesOfLen(n) ==
    {[words |-> w, gaps |-> g] :
        w \in SeqsOfLen(Vocab, n),
        g \in SeqsOfLen(Gaps, IF n = 0 THEN 0 ELSE n - 1)}

\* "the a is": the stop-word-only query of the specification's scenario.
QStopWords == [words |-> <<"the", "a", "is">>, gaps |-> <<"ws", "ws">>]

\* "blind curve School pedestrian": four environment trigger terms.
QAllBoosts ==
    [words |-> <<"blind", "curve", "School", "pedestrian">>,
     gaps |-> <<"ws", "ws", "ws">>]

\* "curve, curve, road": the same token twice, then another one.
QDuplicates ==
    [words |-> <<"curve", "curve", "road">>, gaps |-> <<"punct", "punct">>]

ScenarioQueries == {QStopWords, QAllBoosts, QDuplicates}

\* "accidents at blind curve, missing chevron signs"
QChevron ==
    [words |-> <<"accidents", "at", "blind", "curve", "missing", "chevron",
                 "signs">>,
     gaps |-> <<"ws", "ws", "ws", "punct", "ws", "ws">>]

Queries == UNION {QueriesOfLen(n) : n \in 0..MaxWords} \cup ScenarioQueries

(* ----------------------------- numbers -------------------------------- *)

Max(a, b) == IF a >= b THEN a ELSE b
Min(a, b) == IF a <= b THEN a ELSE b

RECURSIVE Factorial(_)
Factorial(n) == IF n <= 1 THEN 1 ELSE n * Factorial(n - 1)

RECURSIVE SetMax(_)
SetMax(S) ==
    IF S = {} THEN 0
    ELSE LET x == CHOOSE y \in S : TRUE IN Max(x, SetMax(S \ {x}))

\* A common multiple of every token count a query of the model can have.
Den == Factorial(SetMax({Len(q.words) : q \in Queries \cup {QChevron}}))

\* n thousandths, as a score.
Milli(n) == n * Den

\* The score 1.0.
One == Milli(1000)

RECURSIVE SumSeq(_)
SumSeq(s) == IF s = <<>> THEN 0 ELSE Head(s) + SumSeq(Tail(s))

RECURSIVE SumSet(_, _)
SumSet(f, S) ==
    IF S = {} THEN 0
    ELSE LET x == CHOOSE y \in S : TRUE IN f[x] + SumSet(f, S \ {x})

Range(s) == {s[i] : i \in DOMAIN s}

(* ------------------- RetrievalEngine: class constants ------------------ *)

\* Variant: Medium has the weight of Low.
PRIORITY_WEIGHTS_two_tiers == [High |-> 30, Medium |-> 5, Low |-> 5]

\* PRIORITY_WEIGHTS, in thousandths.
PRIORITY_WEIGHTS == [High |-> 30, Medium |-> 15, Low |-> 5]

\* ENV_BOOSTS, in thousandths.
ENV_BOOSTS ==
    [school |-> 80, curve |-> 80, intersection |-> 70, blind |-> 70,
     night |-> 60, pedestrian |-> 80, guardrail |-> 50, dark |-> 60]

\* dict.get(key, default)
DictGet(d, key, default) == IF key \in DOMAIN d THEN d[key] ELSE default

(* --------------------------- tokenize_query ---------------------------- *)

stop_words ==
    {"the", "a", "an", "is", "are", "at", "to", "for", "and", "or", "in",
     "on", "of"}

\* Variant: the pattern is \b\w+\b, every word is a token of its own.
FindAll_single_words(words, gaps, i) ==
    [k \in 1..(Len(words) - i + 1) |-> <<words[i + k - 1]>>]

\* re.findall(r'\b\w+(?:\s+\w+)?\b', text) from word i on: the matches are
\* taken left to right without overlap; a word followed by a whitespace-only
\* gap and another word is matched together with that word.
RECURSIVE FindAll(_, _, _)
FindAll(words, gaps, i) ==
    IF i > Len(words) THEN <<>>
    ELSE IF i < Len(words) /\ gaps[i] = "ws"
         THEN <<(<<words[i], words[i + 1]>>)>> \o FindAll(words, gaps, i + 2)
         ELSE <<(<<words[i]>>)>> \o FindAll(words, gaps, i + 1)

\* t not in stop_words: a token is a stop word only when it is one word.
NotStopWord(t) == ~(Len(t) = 1 /\ t[1] \in stop_words)

\* Variant: the tokens go through a set, which drops the repetitions.
tokenize_query_deduplicated(query) ==
    LET query_lower == [i \in DOMAIN query.words |-> Lower(query.words[i])]
        tokens == SelectSeq(FindAll(query_lower, query.gaps, 1), NotStopWord)
        first(i) == \A j \in 1..(i - 1) : tokens[j] # tokens[i]
        kept == {i \in DOMAIN tokens : first(i)}
        nth(k) == CHOOSE i \in kept :
                      Cardinality({j \in kept : j < i}) = k - 1
    IN [k \in 1..Cardinality(kept) |-> tokens[nth(k)]]

tokenize_query(query) ==
    LET query_lower == [i \in DOMAIN query.words |-> Lower(query.words[i])]
        tokens == FindAll(query_lower, query.gaps, 1)
    IN SelectSeq(tokens, NotStopWord)

(* ------------------------ calculate_fuzzy_score ------------------------ *)

\* fuzz.token_set_ratio(query, target), a percentage: 0 when either text has
\* no word, 100 when the texts share a word and one word set contains the
\* other, else the character-level ratio (below 100) of this run's matcher.
token_set_ratio(token, target) ==
    LET a == Range(token)
        b == Range(target)
    IN IF a = {} \/ b = {} THEN 0
       ELSE IF a \cap b # {} /\ (a \subseteq b \/ b \subseteq a) THEN 100
       ELSE IF a \cap b # {} THEN fuzz.overlap
       ELSE fuzz.disjoint

\* The score in [0, 1], times 100.
calculate_fuzzy_score(token, target) == token_set_ratio(token, target)

(* ------------------------ get_environment_boost ------------------------ *)

\* The trigger terms that occur in a (lower-cased) word. The terms consist
\* of letters only, so an occurrence lies inside one word; every word of the
\* model is a trigger term or contains none.
EnvTermsIn(word) == IF word \in DOMAIN ENV_BOOSTS THEN {word} ELSE {}

\* Variant: a trigger term counts once for every word it occurs in.
get_environment_boost_per_occurrence(query) ==
    LET query_lower == [i \in DOMAIN query.words |-> Lower(query.words[i])]
        boosts == [i \in DOMAIN query_lower |->
                      SumSet(ENV_BOOSTS, EnvTermsIn(query_lower[i]))]
    IN Milli(Min(SumSeq(boosts), 250))

get_environment_boost(query) ==
    LET query_lower == [i \in DOMAIN query.words |-> Lower(query.words[i])]
        matched == UNION {EnvTermsIn(w) : w \in Range(query_lower)}
        boost == SumSet(ENV_BOOSTS, matched)
    IN Milli(Min(boost, 250))

(* -------------------------- score_intervention ------------------------- *)

\* max over the record's keywords of the fuzzy score of one token.
\* Variant: the score against the last keyword replaces the maximum.
max_kw_score_last(token, issue_keywords) ==
    IF issue_keywords = <<>> THEN 0
    ELSE calculate_fuzzy_score(token, issue_keywords[Len(issue_keywords)])

max_kw_score(token, issue_keywords) ==
    SetMax({calculate_fuzzy_score(token, issue_keywords[j]) :
                j \in DOMAIN issue_keywords})

\* Variant: the mean is taken over the distinct tokens.
base_similarity_distinct_tokens(query, intervention) ==
    LET tokens == Range(tokenize_query(query))
        keyword_score == [t \in tokens |->
                             max_kw_score(t, intervention.issue_keywords)]
    IN IF tokens # {}
       THEN (SumSet(keyword_score, tokens) * 10 * Den) \div Cardinality(tokens)
       ELSE 0

base_similarity(query, intervention) ==
    LET tokens == tokenize_query(query)
        keyword_scores ==
            [i \in DOMAIN tokens |->
                max_kw_score(tokens[i], intervention.issue_keywords)]
    IN IF Len(keyword_scores) > 0
       THEN (SumSeq(keyword_scores) * 10 * Den) \div Len(keyword_scores)
       ELSE 0

\* Variant: the "urban" default also applies when the supplied road type
\* matches no tag.
road_type_boost_urban_fallback(intervention, road_type) ==
    LET tags == {Lower(intervention.road_type_tags[j]) :
                    j \in DOMAIN intervention.road_type_tags}
    IN IF Truthy(road_type) /\ Lower(road_type) \in tags THEN Milli(150)
       ELSE IF "urban" \in tags THEN Milli(50)
       ELSE 0

road_type_boost(intervention, road_type) ==
    LET tags == {Lower(intervention.road_type_tags[j]) :
                    j \in DOMAIN intervention.road_type_tags}
    IN IF Truthy(road_type) /\ Lower(road_type) \in tags THEN Milli(150)
       ELSE IF ~Truthy(road_type) /\ "urban" \in tags THEN Milli(50)
       ELSE 0

\* Variant: an explicit environment replaces the query's boost by 0.08.
env_boost_replaced(query, environment) ==
    IF Truthy(environment) THEN Milli(80) ELSE get_environment_boost(query)

env_boost(query, environment) ==
    IF Truthy(environment)
    THEN Max(get_environment_boost(query), Milli(80))
    ELSE get_environment_boost(query)

\* Variant: an unrecognized label falls back to the Low weight.
priority_weight_low_default(intervention) ==
    Milli(DictGet(PRIORITY_WEIGHTS, intervention.priority, 5))

priority_weight(intervention) ==
    Milli(DictGet(PRIORITY_WEIGHTS, intervention.priority, 10))

\* Variant: the sum is returned without the cap at 1.0.
score_intervention_uncapped(query, intervention, road_type, environment) ==
    base_similarity(query, intervention)
        + road_type_boost(intervention, road_type)
        + env_boost(query, environment)
        + priority_weight(intervention)

score_intervention(query, intervention, road_type, environment) ==
    Min(base_similarity(query, intervention)
            + road_type_boost(intervention, road_type)
            + env_boost(query, environment)
            + priority_weight(intervention),
        One)

(* --------------------------- retrieve_and_rank ------------------------- *)

\* The weight the sort key gives a record: PRIORITY_WEIGHTS.get(priority, 0).
tie_break_weight(intervention) ==
    Milli(DictGet(PRIORITY_WEIGHTS, intervention.priority, 0))

\* Variant: the sort key is the score alone.
KeyGE_score_only(a, b) == a.score >= b.score

\* key(a) >= key(b) for the key (score, tie-break weight), compared as tuples.
KeyGE(a, b) ==
    \/ a.score > b.score
    \/ /\ a.score = b.score
       /\ tie_break_weight(a.intervention) >= tie_break_weight(b.intervention)

\* list.sort(key=..., reverse=True) is stable: an element goes behind every
\* element whose key is greater than or equal to its own.
RECURSIVE Insert(_, _)
Insert(sorted, x) ==
    IF sorted = <<>> THEN <<x>>
    ELSE IF KeyGE(Head(sorted), x)
         THEN <<Head(sorted)>> \o Insert(Tail(sorted), x)
         ELSE <<x>> \o sorted

\* Variant: an ascending sort that is reversed afterwards, which turns the
\* entries with equal keys around.
RECURSIVE SortDescending_reversing_ties(_)
SortDescending_reversing_ties(items) ==
    IF items = <<>> THEN <<>>
    ELSE Insert(SortDescending_reversing_ties(Tail(items)), Head(items))

RECURSIVE SortDescending(_)
SortDescending(items) ==
    IF items = <<>> THEN <<>>
    ELSE Insert(SortDescending(SubSeq(items, 1, Len(items) - 1)),
                items[Len(items)])

\* Variant: the last k entries, items[-k:], instead of the first.
Slice_tail(items, k) ==
    IF k > 0 THEN SubSeq(items, Max(Len(items) - k + 1, 1), Len(items))
    ELSE items

\* items[:k]
Slice(items, k) ==
    IF k >= 0 THEN SubSeq(items, 1, Min(k, Len(items)))
    ELSE SubSeq(items, 1, Max(Len(items) + k, 0))

\* Variant: a record that scores below 0.3 is left out of the list.
scored_interventions_above_threshold(query, road_type, environment) ==
    LET admitted(item) == item.score >= Milli(300)
    IN SelectSeq([i \in DOMAIN kb |->
                     [intervention |-> kb[i],
                      score |-> score_intervention(query, kb[i], road_type,
                                                   environment)]],
                 admitted)

\* The list the loop over kb.get_all() builds: one new (intervention, score)
\* pair for every record, in the order of the knowledge base.
scored_interventions(query, road_type, environment) ==
    [i \in DOMAIN kb |->
        [intervention |-> kb[i],
         score |-> score_intervention(query, kb[i], road_type, environment)]]

retrieve_and_rank(query, road_type, environment, top_k) ==
    Slice(SortDescending(scored_interventions(query, road_type, environment)),
          top_k)

(* ------------------------ check_minimum_threshold ---------------------- *)

\* The default of the threshold parameter, 0.3.
DefaultThreshold == Milli(300)

\* Variant: the first score has to exceed the threshold.
check_minimum_threshold_strict(scored_items, threshold) ==
    Len(scored_items) > 0 /\ scored_items[1].score > threshold

check_minimum_threshold(scored_items, threshold) ==
    Len(scored_items) > 0 /\ scored_items[1].score >= threshold

(* --------------- ExplanationLayer._score_to_confidence ----------------- *)

\* Variant: the boundaries are exclusive.
score_to_confidence_exclusive(score) ==
    IF score > Milli(800) THEN "Very High"
    ELSE IF score > Milli(600) THEN "High"
    ELSE IF score > Milli(400) THEN "Medium"
    ELSE "Low"

score_to_confidence(score) ==
    IF score >= Milli(800) THEN "Very High"
    ELSE IF score >= Milli(600) THEN "High"
    ELSE IF score >= Milli(400) THEN "Medium"
    ELSE "Low"

(* ---------------- ExplanationLayer.format_recommendation --------------- *)

\* round(score * 100, 1) in tenths of a percent, ties to the even digit.
relevance_score(score) ==
    LET q == score \div Den
        r == score % Den
    IN IF 2 * r > Den THEN q + 1
       ELSE IF 2 * r < Den THEN q
       ELSE IF q % 2 = 0 THEN q ELSE q + 1

\* The fields of the card that depend on the ranking; the texts of the
\* record are copied as they are.
format_recommendation(intervention, score) ==
    [id |-> intervention.id,
     priority |-> intervention.priority,
     relevance_score |-> relevance_score(score),
     confidence |-> score_to_confidence(score)]

(* ------------------------------ inputs --------------------------------- *)

KwCurve == <<(<<"curve">>)>>
KwBlindCurve == <<(<<"blind", "curve">>), (<<"school", "pedestrian", "crossing">>)>>
KwRoad == <<(<<"the", "curve", "road">>)>>

KeywordLists == {<<>>, KwCurve, KwBlindCurve, KwRoad}

TagLists == {<<>>, <<"Urban">>, <<"rural", "highway">>}

\* "Critical" is a label outside PRIORITY_WEIGHTS.
Priorities == {"High", "Medium", "Low", "Critical"}

\* The records score_intervention is applied to.
AllRecords ==
    [id : {1}, issue_keywords : KeywordLists, road_type_tags : TagLists,
     priority : Priorities]

RoadTypes == {None, "", "URBAN", "rural"}

Environments == {None, "", "school zone"}

\* With a second non-empty text, one that holds no trigger term.
ScoringEnvironments == Environments \cup {"bridge"}

Record(i, kws, tags, p) ==
    [id |-> i, issue_keywords |-> kws, road_type_tags |-> tags, priority |-> p]

\* The records knowledge bases are made of; ids are unique.
RecordPool ==
    {Record(1, KwBlindCurve, <<"rural", "highway">>, "High"),
     Record(2, KwCurve, <<"Urban">>, "Low"),
     Record(3, KwCurve, <<"Urban">>, "Critical"),
     Record(4, KwRoad, <<>>, "Medium"),
     Record(5, KwCurve, <<>>, "Low")}

Injective(s) == \A i, j \in DOMAIN s : i # j => s[i] # s[j]

KBs ==
    UNION {{s \in SeqsOfLen(RecordPool, n) : Injective(s)} : n \in 0..MaxKB}

TopKs == (-2)..(MaxKB + 1)

\* The matchers of the model: the character-level ratio, as a percentage,
\* of two texts that share a word and of two texts that share none.
FuzzProfiles ==
    {[overlap |-> 60, disjoint |-> 0], [overlap |-> 90, disjoint |-> 40]}

\* Scores check_minimum_threshold is called with, in thousandths.
GateSamples == {0, 290, 299, 300, 301, 1000}

ScoredLists ==
    UNION {SeqsOfLen({[intervention |-> Record(1, KwCurve, <<>>, "High"),
                       score |-> Milli(n)] : n \in GateSamples}, len) :
              len \in 0..2}

Thresholds == {Milli(200), Milli(300), Milli(500)}

\* Scores _score_to_confidence is called with: every thousandth of [0, 1]
\* and the nearest scores on both sides of each boundary.
ConfidenceSamples ==
    {Milli(n) : n \in 0..1000}
        \cup {Milli(n) - 1 : n \in {300, 400, 600, 800}}
        \cup {Milli(n) + 1 : n \in {300, 400, 600, 800}}

(* ------------------------------ actions -------------------------------- *)

NoArgs == [none |-> TRUE]

\* RetrievalEngine(kb) over a knowledge base that holds any of the records.
Init ==
    /\ kb \in KBs
    /\ fuzz \in FuzzProfiles
    /\ op = "idle"
    /\ args = NoArgs
    /\ result = NoArgs
    /\ memo = NoArgs
    /\ thr = <<>>
    /\ req = NoArgs
    /\ session = NoArgs
    /\ loader = NoArgs

TokenizeQuery(query) ==
    /\ op = "idle"
    /\ op' = "tokenize_query"
    /\ args' = [query |-> query]
    /\ result' = tokenize_query(query)
    /\ UNCHANGED <<kb, fuzz, memo, thr, req, session, loader>>

\* Variant: scoring writes the Low tier into a record whose priority it
\* does not recognise.
ScoreIntervention_relabelling(query, intervention, road_type, environment) ==
    /\ op = "idle"
    /\ op' = "score_intervention"
    /\ args' = [query |-> query, intervention |-> intervention,
                road_type |-> road_type, environment |-> environment]
    /\ result' = score_intervention(query, intervention, road_type, environment)
    /\ kb' = [i \in DOMAIN kb |->
                 IF kb[i] = intervention
                        /\ intervention.priority \notin DOMAIN PRIORITY_WEIGHTS
                 THEN [kb[i] EXCEPT !.priority = "Low"]
                 ELSE kb[i]]
    /\ UNCHANGED <<fuzz, memo, thr, req, session, loader>>

ScoreIntervention(query, intervention, road_type, environment) ==
    /\ op = "idle"
    /\ op' = "score_intervention"
    /\ args' = [query |-> query, intervention |-> intervention,
                road_type |-> road_type, environment |-> environment]
    /\ result' = score_intervention(query, intervention, road_type, environment)
    /\ UNCHANGED <<kb, fuzz, memo, thr, req, session, loader>>

GetEnvironmentBoost(query) ==
    /\ op = "idle"
    /\ op' = "get_environment_boost"
    /\ args' = [query |-> query]
    /\ result' = get_environment_boost(query)
    /\ UNCHANGED <<kb, fuzz, memo, thr, req, session, loader>>

\* Variant: the sort is done in place on the list kb.get_all() returns.
RetrieveAndRank_in_place(query, road_type, environment, top_k) ==
    LET sorted == SortDescending(
                      scored_interventions(query, road_type, environment))
    IN /\ op = "idle"
       /\ op' = "retrieve_and_rank"
       /\ args' = [query |-> query, road_type |-> road_type,
                   environment |-> environment, top_k |-> top_k]
       /\ result' = Slice(sorted, top_k)
       /\ kb' = [i \in DOMAIN sorted |-> sorted[i].intervention]
       /\ UNCHANGED <<fuzz, memo, thr, req, session, loader>>

RetrieveAndRank(query, road_type, environment, top_k) ==
    /\ op = "idle"
    /\ op' = "retrieve_and_rank"
    /\ args' = [query |-> query, road_type |-> road_type,
                environment |-> environment, top_k |-> top_k]
    /\ result' = retrieve_and_rank(query, road_type, environment, top_k)
    /\ UNCHANGED <<kb, fuzz, memo, thr, req, session, loader>>

\* given = FALSE: the caller leaves the threshold to its default.
CheckMinimumThreshold(scored_items, given, threshold) ==
    /\ op = "idle"
    /\ op' = "check_minimum_threshold"
    /\ args' = [scored_items |-> scored_items, given |-> given,
                threshold |-> IF given THEN threshold ELSE DefaultThreshold]
    /\ result' = check_minimum_threshold(
                     scored_items, IF given THEN threshold ELSE DefaultThreshold)
    /\ UNCHANGED <<kb, fuzz, memo, thr, req, session, loader>>

ScoreToConfidence(score) ==
    /\ op = "idle"
    /\ op' = "score_to_confidence"
    /\ args' = [score |-> score]
    /\ result' = score_to_confidence(score)
    /\ UNCHANGED <<kb, fuzz, memo, thr, req, session, loader>>

\* The caller takes the result; the engine is ready for the next call.
Return ==
    /\ op # "idle"
    /\ op' = "idle"
    /\ args' = NoArgs
    /\ result' = NoArgs
    /\ UNCHANGED <<kb, fuzz, memo, thr, req, session, loader>>

\* The ranking engine over every knowledge base of the model.
Next ==
    \/ Return
    \/ /\ op = "idle"
       /\ \E query \in Queries, road_type \in RoadTypes,
             environment \in Environments, top_k \in TopKs :
              RetrieveAndRank(query, road_type, environment, top_k)

Spec == Init /\ [][Next]_vars

\* The pure functions, applied to every input of the model.
InitScore ==
    /\ kb = <<>>
    /\ fuzz \in FuzzProfiles
    /\ op = "idle"
    /\ args = NoArgs
    /\ result = NoArgs
    /\ memo = NoArgs
    /\ thr = <<>>
    /\ req = NoArgs
    /\ session = NoArgs
    /\ loader = NoArgs

NextScore ==
    \/ Return
    \/ /\ op = "idle"
       /\ \E query \in Queries : TokenizeQuery(query)
    \/ /\ op = "idle"
       /\ \E query \in Queries : GetEnvironmentBoost(query)
    \/ /\ op = "idle"
       /\ \E query \in Queries, intervention \in AllRecords,
             road_type \in RoadTypes, environment \in ScoringEnvironments :
              ScoreIntervention(query, intervention, road_type, environment)
    \/ /\ op = "idle"
       /\ \E scored_items \in ScoredLists, threshold \in Thresholds :
              \/ CheckMinimumThreshold(scored_items, TRUE, threshold)
              \/ CheckMinimumThreshold(scored_items, FALSE, threshold)
    \/ /\ op = "idle"
       /\ \E score \in ConfidenceSamples : ScoreToConfidence(score)

SpecScore == InitScore /\ [][NextScore]_vars

(* ------------------- a session of calls on one engine ------------------ *)

\* The caller keeps the call and its result for a later comparison.
KeepResult ==
    /\ op # "idle"
    /\ memo = NoArgs
    /\ memo' = [op |-> op, args |-> args, result |-> result, between |-> FALSE]
    /\ op' = "idle"
    /\ args' = NoArgs
    /\ result' = NoArgs
    /\ UNCHANGED <<kb, fuzz, thr, req, session, loader>>

\* The call returns; between records that a call other than the kept one
\* was executed since the result was kept.
DropResult ==
    /\ op # "idle"
    /\ memo' = IF memo # NoArgs /\ (op # memo.op \/ args # memo.args)
               THEN [memo EXCEPT !.between = TRUE]
               ELSE memo
    /\ op' = "idle"
    /\ args' = NoArgs
    /\ result' = NoArgs
    /\ UNCHANGED <<kb, fuzz, thr, req, session, loader>>

SessionQueries == QueriesOfLen(1)

SessionRoadTypes == {None, "URBAN"}

SessionEnvironments == {None, "school zone"}

SessionTopKs == {1, MaxKB}

\* The methods of one engine, called one after the other in any order.
NextSession ==
    \/ KeepResult
    \/ DropResult
    \/ /\ op = "idle"
       /\ \E query \in SessionQueries : TokenizeQuery(query)
    \/ /\ op = "idle"
       /\ \E query \in SessionQueries, i \in DOMAIN kb,
             road_type \in SessionRoadTypes,
             environment \in SessionEnvironments :
              ScoreIntervention(query, kb[i], road_type, environment)
    \/ /\ op = "idle"
       /\ \E query \in SessionQueries, road_type \in SessionRoadTypes,
             environment \in SessionEnvironments, top_k \in SessionTopKs :
              RetrieveAndRank(query, road_type, environment, top_k)
    \/ /\ op = "idle"
       /\ \E query \in SessionQueries :
              CheckMinimumThreshold(
                  retrieve_and_rank(query, None, None, MaxKB), FALSE,
                  DefaultThreshold)

SpecSession == Init /\ [][NextSession]_vars

(* ---------------- concurrent calls of retrieve_and_rank ---------------- *)

\* The callers that share the one engine of the server.
Threads == {1, 2}

\* The local state of a caller: its position in retrieve_and_rank, the
\* arguments, the loop index into kb.get_all(), the local list
\* scored_interventions and the returned value.
IdleThread ==
    [pc |-> "idle", args |-> NoArgs, i |-> 1, scored |-> <<>>, ret |-> <<>>]

InitConcurrent ==
    /\ kb \in KBs
    /\ fuzz \in FuzzProfiles
    /\ op = "idle"
    /\ args = NoArgs
    /\ result = NoArgs
    /\ memo = NoArgs
    /\ thr = [t \in Threads |-> IdleThread]
    /\ req = NoArgs
    /\ session = NoArgs
    /\ loader = NoArgs

\* scored_interventions = []
Call(t, query, road_type, environment, top_k) ==
    /\ thr[t].pc = "idle"
    /\ thr' = [thr EXCEPT ![t] =
                  [pc |-> "loop",
                   args |-> [query |-> query, road_type |-> road_type,
                             environment |-> environment, top_k |-> top_k],
                   i |-> 1, scored |-> <<>>, ret |-> <<>>]]
    /\ UNCHANGED <<kb, fuzz, op, args, result, memo, req, session, loader>>

\* The pair one iteration of the loop appends.
ScoredPair(t) ==
    [intervention |-> kb[thr[t].i],
     score |-> score_intervention(thr[t].args.query, kb[thr[t].i],
                                  thr[t].args.road_type,
                                  thr[t].args.environment)]

\* Variant: the list is an attribute of the engine, one list for all
\* callers.
ScoreNext_shared_list(t) ==
    /\ thr[t].pc = "loop"
    /\ thr[t].i <= Len(kb)
    /\ thr' = [u \in Threads |->
                  IF u = t
                  THEN [thr[t] EXCEPT !.scored = Append(@, ScoredPair(t)),
                                      !.i = @ + 1]
                  ELSE [thr[u] EXCEPT
                            !.scored = Append(thr[t].scored, ScoredPair(t))]]
    /\ UNCHANGED <<kb, fuzz, op, args, result, memo, req, session, loader>>

\* One iteration of the loop over kb.get_all().
ScoreNext(t) ==
    /\ thr[t].pc = "loop"
    /\ thr[t].i <= Len(kb)
    /\ thr' = [thr EXCEPT ![t].scored = Append(@, ScoredPair(t)),
                          ![t].i = @ + 1]
    /\ UNCHANGED <<kb, fuzz, op, args, result, memo, req, session, loader>>

\* scored_interventions.sort(..., reverse=True) after the loop.
SortScored(t) ==
    /\ thr[t].pc = "loop"
    /\ thr[t].i > Len(kb)
    /\ thr' = [thr EXCEPT ![t].scored = SortDescending(@),
                          ![t].pc = "slice"]
    /\ UNCHANGED <<kb, fuzz, op, args, result, memo, req, session, loader>>

\* return scored_interventions[:top_k]
ReturnTopK(t) ==
    /\ thr[t].pc = "slice"
    /\ thr' = [thr EXCEPT ![t].ret = Slice(thr[t].scored, thr[t].args.top_k),
                          ![t].pc = "done"]
    /\ UNCHANGED <<kb, fuzz, op, args, result, memo, req, session, loader>>

\* The caller takes the returned list and is free for the next request.
Finish(t) ==
    /\ thr[t].pc = "done"
    /\ thr' = [thr EXCEPT ![t] = IdleThread]
    /\ UNCHANGED <<kb, fuzz, op, args, result, memo, req, session, loader>>

NextConcurrent ==
    \E t \in Threads :
        \/ /\ thr[t].pc = "idle"
           /\ \E query \in SessionQueries, road_type \in SessionRoadTypes,
                 top_k \in SessionTopKs :
                  Call(t, query, road_type, None, top_k)
        \/ ScoreNext(t)
        \/ SortScored(t)
        \/ ReturnTopK(t)
        \/ Finish(t)

SpecConcurrent == InitConcurrent /\ [][NextConcurrent]_vars

(* ------------------- the blind-curve scenario -------------------------- *)

\* The one record of the scenario's knowledge base.
ChevronRecord ==
    Record(1, <<(<<"blind", "curve">>), (<<"chevron", "sign">>)>>,
           <<"rural">>, "High")

\* Matchers with any ratio below 100 for texts that are not identical.
Matchers ==
    {[overlap |-> o, disjoint |-> d] : o, d \in {0, 25, 50, 75, 99}}

InitChevron ==
    /\ kb = <<ChevronRecord>>
    /\ fuzz \in Matchers
    /\ op = "idle"
    /\ args = NoArgs
    /\ result = NoArgs
    /\ memo = NoArgs
    /\ thr = <<>>
    /\ req = NoArgs
    /\ session = NoArgs
    /\ loader = NoArgs

\* The caller passes the ranked list to check_minimum_threshold, with the
\* default threshold.
CheckRanked ==
    /\ op = "retrieve_and_rank"
    /\ op' = "check_minimum_threshold"
    /\ args' = [scored_items |-> result, given |-> FALSE,
                threshold |-> DefaultThreshold, call |-> args]
    /\ result' = check_minimum_threshold(result, DefaultThreshold)
    /\ UNCHANGED <<kb, fuzz, memo, thr, req, session, loader>>

NextChevron ==
    \/ Return
    \/ CheckRanked
    \/ /\ op = "idle"
       /\ \E query \in SessionQueries \cup {QChevron}, top_k \in {1, 3} :
              RetrieveAndRank(query, None, None, top_k)

SpecChevron == InitChevron /\ [][NextChevron]_vars

(* -------------------- presentation entry points ------------------------ *)

Endpoints == {"/suggest", "/generate/pdf", "/generate/pptx"}

Pages == {"main", "main_roadwise", "main_enhanced", "main_modern"}

\* The entry points that test the query before they call the engine.
Validating == {"/suggest"} \cup Pages

\* The pages with a priority filter.
Filtering == {"main_enhanced", "main_modern"}

\* The top_k a page passes to retrieve_and_rank.
PageTopK(entry) ==
    CASE entry = "main" -> 3
      [] entry = "main_roadwise" -> 5
      [] entry = "main_enhanced" -> 5
      [] entry = "main_modern" -> 6

\* The value of an optional input the user left alone.
NoChoice(entry) ==
    IF entry = "main_modern" THEN "Any"
    ELSE IF entry \in Pages THEN ""
    ELSE None

\* The argument an entry point passes to the engine for an optional input.
EngineArg(entry, value) ==
    IF entry = "main_modern" THEN (IF value = "Any" THEN None ELSE value)
    ELSE IF entry \in Pages THEN (IF Truthy(value) THEN value ELSE None)
    ELSE value

\* not query.strip(): the texts without a word are the empty text and the
\* texts of whitespace.
IsBlank(query) == query.words = <<>>

PresentQueries == QueriesOfLen(0) \cup QueriesOfLen(1)

NoException == [status_code |-> 0, detail |-> "none"]

HTTPException(status_code, detail) ==
    [status_code |-> status_code, detail |-> detail]

\* What the user gets: the HTTP status (0 on a page), the kind of body,
\* the exception str(e) was taken of, the recommendations shown.
Response(status, body, recommendations) ==
    [status |-> status, body |-> body, cause |-> NoException,
     recommendations |-> recommendations]

NoResponse == Response(0, "none", <<>>)

\* except Exception as e: raise HTTPException(status_code=500,
\* detail=str(e)), rendered by http_exception_handler.
HandlerExcept(e) ==
    [status |-> 500, body |-> "error", cause |-> e, recommendations |-> <<>>]

\* The RESULTS SECTION of main_modern renders the recommendations kept in
\* the session state, on every run of the page.
ResultsSection(entry) ==
    IF entry = "main_modern" /\ session.search_performed
    THEN session.recommendations
    ELSE <<>>

EmptySession ==
    [search_performed |-> FALSE, recommendations |-> <<>>, origin |-> <<>>]

InitPresent ==
    /\ kb \in KBs
    /\ fuzz \in FuzzProfiles
    /\ op = "idle"
    /\ args = NoArgs
    /\ result = NoArgs
    /\ memo = NoArgs
    /\ thr = <<>>
    /\ req = NoArgs
    /\ session = EmptySession
    /\ loader = NoArgs

\* A request arrives, or the search button of a page is pressed.
Receive(entry, query, road_type, priority, top_k) ==
    /\ req = NoArgs
    /\ req' = [entry |-> entry, query |-> query, road_type |-> road_type,
               environment |-> NoChoice(entry), priority |-> priority,
               top_k |-> top_k,
               pc |-> IF entry \in Validating THEN "validate" ELSE "rank",
               engine_called |-> FALSE, ranked |-> <<>>, scored |-> <<>>,
               gate |-> "not called", formatted |-> <<>>,
               response |-> NoResponse]
    /\ UNCHANGED <<kb, fuzz, op, args, result, memo, thr, session, loader>>

\* if not query or not query.strip(): /suggest raises inside its try
\* block, a page shows st.error.
Validate ==
    /\ req # NoArgs
    /\ req.pc = "validate"
    /\ req' =
           IF ~IsBlank(req.query) THEN [req EXCEPT !.pc = "rank"]
           ELSE IF req.entry = "/suggest"
           THEN [req EXCEPT
                     !.pc = "done",
                     !.response = HandlerExcept(
                         HTTPException(400, "Query cannot be empty"))]
           ELSE [req EXCEPT
                     !.pc = "done",
                     !.response = Response(0, "st.error",
                                           ResultsSection(req.entry))]
    /\ UNCHANGED <<kb, fuzz, op, args, result, memo, thr, session, loader>>

\* The list comprehension that keeps the entries of the chosen priority.
PriorityFilter(entry, priority, scored) ==
    LET keep(item) == Lower(item.intervention.priority) = Lower(priority)
    IN IF entry \in Filtering /\ priority # NoChoice(entry)
       THEN SelectSeq(scored, keep)
       ELSE scored

\* scored_interventions = retrieval_engine.retrieve_and_rank(...), and the
\* priority filter of the pages that have one.
Rank ==
    /\ req # NoArgs
    /\ req.pc = "rank"
    /\ LET ranked == retrieve_and_rank(
                         req.query,
                         EngineArg(req.entry, req.road_type),
                         EngineArg(req.entry, req.environment),
                         req.top_k)
       IN req' = [req EXCEPT
                      !.pc = "gate",
                      !.engine_called = TRUE,
                      !.ranked = ranked,
                      !.scored = PriorityFilter(req.entry, req.priority,
                                                ranked)]
    /\ UNCHANGED <<kb, fuzz, op, args, result, memo, thr, session, loader>>

\* The response of an entry point when the gate is closed.
NoMatchResponse(entry) ==
    IF entry = "/suggest" THEN Response(200, "no_match", <<>>)
    ELSE IF entry \in Endpoints
    THEN HandlerExcept(HTTPException(400, "No suitable interventions found"))
    ELSE Response(0, "st.warning", ResultsSection(entry))

\* Variant: a page goes on to format its list when the gate is closed.
CheckThreshold_ignored_by_pages ==
    /\ req # NoArgs
    /\ req.pc = "gate"
    /\ req' =
           IF check_minimum_threshold(req.scored, DefaultThreshold)
           THEN [req EXCEPT !.pc = "present", !.gate = "True"]
           ELSE IF req.entry \in Pages
           THEN [req EXCEPT !.pc = "present", !.gate = "False"]
           ELSE [req EXCEPT !.pc = "done", !.gate = "False",
                            !.response = NoMatchResponse(req.entry)]
    /\ UNCHANGED <<kb, fuzz, op, args, result, memo, thr, session, loader>>

\* if not retrieval_engine.check_minimum_threshold(scored_interventions)
CheckThreshold ==
    /\ req # NoArgs
    /\ req.pc = "gate"
    /\ req' =
           IF check_minimum_threshold(req.scored, DefaultThreshold)
           THEN [req EXCEPT !.pc = "present", !.gate = "True"]
           ELSE [req EXCEPT !.pc = "done", !.gate = "False",
                            !.response = NoMatchResponse(req.entry)]
    /\ UNCHANGED <<kb, fuzz, op, args, result, memo, thr, session, loader>>

\* The recommendations are formatted, then put into the JSON output, into
\* the report file (whose generation may raise) or on the page; main_modern
\* keeps them in the session state and reruns.
Present(raises) ==
    /\ req # NoArgs
    /\ req.pc = "present"
    /\ raises => req.entry \in {"/generate/pdf", "/generate/pptx"}
    /\ LET recommendations ==
               [i \in DOMAIN req.scored |->
                   format_recommendation(req.scored[i].intervention,
                                         req.scored[i].score)]
           response ==
               IF raises
               THEN HandlerExcept(HTTPException(0, "report generation"))
               ELSE IF req.entry = "/suggest"
               THEN Response(200, "recommendations", recommendations)
               ELSE IF req.entry \in Endpoints
               THEN Response(200, "file", recommendations)
               ELSE Response(0, "results", recommendations)
       IN /\ req' = [req EXCEPT !.pc = "done",
                                !.formatted = recommendations,
                                !.response = response]
          /\ session' =
                 IF req.entry = "main_modern"
                 THEN [search_performed |-> TRUE,
                       recommendations |-> recommendations,
                       origin |-> req.scored]
                 ELSE session
    /\ UNCHANGED <<kb, fuzz, op, args, result, memo, thr, loader>>

\* The response is sent, or the run of the page ends.
Close ==
    /\ req # NoArgs
    /\ req.pc = "done"
    /\ req' = NoArgs
    /\ UNCHANGED <<kb, fuzz, op, args, result, memo, thr, session, loader>>

NextPresent ==
    \/ /\ req = NoArgs
       /\ \E entry \in Endpoints \cup Pages, query \in PresentQueries :
          \E road_type \in {NoChoice(entry), "URBAN"},
             priority \in {NoChoice(entry)} \cup
                 (IF entry \in Filtering THEN {"High"} ELSE {}),
             top_k \in IF entry \in Endpoints THEN {0, 3}
                       ELSE {PageTopK(entry)} :
              Receive(entry, query, road_type, priority, top_k)
    \/ Validate
    \/ Rank
    \/ CheckThreshold
    \/ \E raises \in BOOLEAN : Present(raises)
    \/ Close

SpecPresent == InitPresent /\ [][NextPresent]_vars

(* ---------------- InterventionKB: loading the table -------------------- *)

\* A cell text: "plain" does not start with '[', "json" is a JSON list with
\* the elements items, "broken" starts with '[' and is no JSON.
Cell(kind, text, items) == [kind |-> kind, text |-> text, items |-> items]

\* A JSON element that is not a string, such as the 1 of "[1]".
JsonNumber == "<1>"

\* int(x) of an id cell; the cells outside the table make int() raise.
IntOf(cell) ==
    CASE cell = "1" -> 1
      [] cell = "2" -> 2
      [] cell = "3" -> 3
      [] cell = "4" -> 4
      [] cell = "5" -> 5
      [] OTHER -> -1

IntRaises(cell) == cell \notin {"1", "2", "3", "4", "5"}

\* _parse_list_field: json.loads of a text that starts with '[', and the
\* one-element list of the text itself otherwise or when json.loads raises.
parse_list_field(cell) ==
    IF cell.kind = "json" THEN cell.items ELSE <<cell.text>>

\* _determine_priority: High on an indicator word in the problem text or
\* in the type text, Medium otherwise. The words of the model's texts
\* either are an indicator word or contain none.
determine_priority(type_text, problem_text) ==
    IF \E i \in DOMAIN problem_text :
           Lower(problem_text[i]) \in
               {"accident", "fatal", "injury", "crash", "collision",
                "damaged", "missing", "broken", "failed"}
    THEN "High"
    ELSE IF Lower(type_text) \in {"urgent", "critical", "immediate"}
    THEN "High"
    ELSE "Medium"

Row(id, problem, category, type) ==
    [id |-> id, problem |-> problem, category |-> category, type |-> type]

\* The rows tables are made of: a plain row, a row whose id is no number,
\* a row with a JSON list of tags, a row whose list of tags holds a number,
\* a row whose list of tags is broken JSON.
RowPool ==
    {Row("1", <<"curve">>, Cell("plain", "Urban", <<>>), "regular"),
     Row("n/a", <<"curve">>, Cell("plain", "Urban", <<>>), "regular"),
     Row("3", <<"missing", "road">>,
         Cell("json", "['rural', 'highway']", <<"rural", "highway">>),
         "regular"),
     Row("4", <<"curve">>, Cell("json", "[1]", <<JsonNumber>>), "urgent"),
     Row("5", <<"blind", "curve">>, Cell("broken", "[urban", <<>>), "regular")}

Tables ==
    UNION {{t \in SeqsOfLen(RowPool, n) : Injective(t)} : n \in 0..(MaxKB + 1)}

\* The statements of the try block that can raise for a row.
RowRaises(row) == IntRaises(row.id)

\* The dictionary the try block builds, as far as ranking reads it.
ParsedRecord(row) ==
    [id |-> IntOf(row.id),
     issue_keywords |-> <<row.problem>>,
     road_type_tags |-> parse_list_field(row.category),
     priority |-> determine_priority(row.type, row.problem)]

\* self.df is read, self.interventions = []
InitLoad ==
    /\ kb = <<>>
    /\ fuzz \in FuzzProfiles
    /\ op = "idle"
    /\ args = NoArgs
    /\ result = NoArgs
    /\ memo = NoArgs
    /\ thr = <<>>
    /\ req = NoArgs
    /\ session = NoArgs
    /\ \E df \in Tables :
           loader = [df |-> df, idx |-> 1, reported |-> <<>>, done |-> FALSE]

\* One iteration of the loop over self.df.iterrows().
ParseRow ==
    /\ ~loader.done
    /\ loader.idx <= Len(loader.df)
    /\ LET row == loader.df[loader.idx]
       IN IF RowRaises(row)
          THEN /\ loader' = [loader EXCEPT
                                 !.idx = @ + 1,
                                 !.reported = Append(@, loader.idx)]
               /\ kb' = kb
          ELSE /\ loader' = [loader EXCEPT !.idx = @ + 1]
               /\ kb' = Append(kb, ParsedRecord(row))
    /\ UNCHANGED <<fuzz, op, args, result, memo, thr, req, session>>

\* The loop ends, InterventionKB.__init__ returns, RetrievalEngine(kb).
FinishLoad ==
    /\ ~loader.done
    /\ loader.idx > Len(loader.df)
    /\ loader' = [loader EXCEPT !.done = TRUE]
    /\ UNCHANGED <<kb, fuzz, op, args, result, memo, thr, req, session>>

\* tag.lower() raises AttributeError for a tag that is no string.
TagsRaise(intervention) ==
    \E j \in DOMAIN intervention.road_type_tags :
        intervention.road_type_tags[j] = JsonNumber

\* retrieve_and_rank on the loaded knowledge base: the exception of a
\* record leaves the loop and the method.
RankLoaded(query, road_type, top_k) ==
    /\ loader.done
    /\ op = "idle"
    /\ args' = [query |-> query, road_type |-> road_type,
                environment |-> None, top_k |-> top_k]
    /\ IF \E i \in DOMAIN kb : TagsRaise(kb[i])
       THEN /\ op' = "AttributeError"
            /\ result' = NoArgs
       ELSE /\ op' = "retrieve_and_rank"
            /\ result' = retrieve_and_rank(query, road_type, None, top_k)
    /\ UNCHANGED <<kb, fuzz, memo, thr, req, session, loader>>

NextLoad ==
    \/ ParseRow
    \/ FinishLoad
    \/ /\ op = "idle"
       /\ \E query \in SessionQueries, road_type \in SessionRoadTypes :
              RankLoaded(query, road_type, MaxKB + 1)
    \/ Return

SpecLoad == InitLoad /\ [][NextLoad]_vars

(* ======================= properties of the engine ====================== *)

\* The score of the record of the knowledge base at position i under the
\* arguments of the ranking call in progress.
ScoreOfCall(i) ==
    score_intervention(args.query, kb[i], args.road_type, args.environment)

\* The record of a scoring call with another priority label.
WithPriority(intervention, p) == [intervention EXCEPT !.priority = p]

\* Every boost of the call in progress is at its maximum.
AllBoostsStacked ==
    /\ Len(tokenize_query(args.query)) > 0
    /\ base_similarity(args.query, args.intervention) = One
    /\ road_type_boost(args.intervention, args.road_type) = Milli(150)
    /\ get_environment_boost(args.query) = Milli(250)
    /\ args.intervention.priority = "High"

\* C1: score_intervention returns a composite score in [0.0, 1.0] for every
\* query, record, road_type and environment; a record with a perfect keyword
\* match, a matching road type, the maximum environment boost and High
\* priority scores exactly 1.0.
C1_ScoreBounded ==
    op = "score_intervention" =>
        /\ 0 <= result
        /\ result <= One
        /\ AllBoostsStacked => result = One

C1_Witness ==
    /\ op = "score_intervention"
    /\ AllBoostsStacked
    /\ result = One

\* C2: the scores of the list retrieve_and_rank returns are non-increasing
\* by position, and two adjacent entries with equal score are ordered by
\* descending priority weight: High before Medium before Low, and any of
\* them before a label the sort key has no weight for.
PriorityRank(p) ==
    CASE p = "High" -> 3 [] p = "Medium" -> 2 [] p = "Low" -> 1 [] OTHER -> 0

C2_RankingOrder ==
    op = "retrieve_and_rank" =>
        \A i \in 1..(Len(result) - 1) :
            /\ result[i].score >= result[i + 1].score
            /\ result[i].score = result[i + 1].score =>
                   PriorityRank(result[i].intervention.priority)
                       >= PriorityRank(result[i + 1].intervention.priority)

C2_Witness ==
    /\ op = "retrieve_and_rank"
    /\ Len(kb) = 2
    /\ Len(result) = 2
    /\ result[1].score = result[2].score
    /\ kb[1].priority = "Low"
    /\ result[1].intervention.priority = "High"
    /\ result[2].intervention.priority = "Low"

\* C3: len(retrieve_and_rank(..., top_k=k)) <= k when k >= 0, and the
\* result is the empty sequence whenever k <= 0, every negative k included.
C3_TopKBound ==
    op = "retrieve_and_rank" =>
        /\ args.top_k >= 0 => Len(result) <= args.top_k
        /\ args.top_k <= 0 => result = <<>>

\* C4: for top_k >= 1 and a non-empty knowledge base the first entry
\* returned has the maximum score over all records of the knowledge base,
\* and every returned entry scores at least as high as every record that
\* was not returned.
ReturnedIds == {result[j].intervention.id : j \in DOMAIN result}

C4_TopKBest ==
    (op = "retrieve_and_rank" /\ args.top_k >= 1 /\ Len(kb) >= 1) =>
        /\ Len(result) >= 1
        /\ \A i \in DOMAIN kb : result[1].score >= ScoreOfCall(i)
        /\ \E i \in DOMAIN kb :
               kb[i] = result[1].intervention /\ result[1].score = ScoreOfCall(i)
        /\ \A j \in DOMAIN result : \A i \in DOMAIN kb :
               kb[i].id \notin ReturnedIds => result[j].score >= ScoreOfCall(i)

C4_Witness ==
    /\ op = "retrieve_and_rank"
    /\ args.top_k = 1
    /\ Len(kb) = 2
    /\ Len(result) = 1
    /\ result[1].intervention = kb[2]
    /\ result[1].score > ScoreOfCall(1)

C6_ConfidenceLabels ==
    op = "score_to_confidence" =>
        LET s == args.score
        IN /\ (result = "Very High") = (s >= Milli(800))
           /\ (result = "High") = (Milli(600) <= s /\ s < Milli(800))
           /\ (result = "Medium") = (Milli(400) <= s /\ s < Milli(600))
           /\ (result = "Low") = (s < Milli(400))
           /\ (Milli(300) <= s /\ s < Milli(400)) =>
                  /\ result = "Low"
                  /\ check_minimum_threshold(
                         <<[intervention |-> Record(1, KwCurve, <<>>, "High"),
                            score |-> s]>>, DefaultThreshold)

C6_Witness ==
    /\ op = "score_to_confidence"
    /\ args.score = Milli(800) - 1
    /\ result = "High"

C8_OnePriorityWeight ==
    op = "retrieve_and_rank" =>
        \A i \in DOMAIN kb : tie_break_weight(kb[i]) = priority_weight(kb[i])

\* A query of stop words separated by whitespace only.
OnlyStopWords(query) ==
    /\ Len(query.words) >= 1
    /\ \A i \in DOMAIN query.words : Lower(query.words[i]) \in stop_words
    /\ \A i \in DOMAIN query.gaps : query.gaps[i] = "ws"

\* C9: for a query made only of stop words separated by whitespace,
\* tokenize_query returns the empty list, so the base similarity is 0.0 for
\* every record and the composite score is exactly road-type boost +
\* environment boost + priority weight.
C9_StopWordsOnly ==
    /\ (op = "tokenize_query" /\ OnlyStopWords(args.query)) => result = <<>>
    /\ (op = "score_intervention" /\ OnlyStopWords(args.query)) =>
           /\ base_similarity(args.query, args.intervention) = 0
           /\ result = road_type_boost(args.intervention, args.road_type)
                           + env_boost(args.query, args.environment)
                           + priority_weight(args.intervention)

\* C10: the score computed with a non-empty explicit environment argument
\* is >= the score computed with no environment argument, all other inputs
\* equal.
C10_EnvironmentFloor ==
    (op = "score_intervention" /\ Truthy(args.environment)) =>
        result >= score_intervention(args.query, args.intervention,
                                     args.road_type, None)

\* The explicit environment raises the score above that of the same call
\* without it.
C10_Witness ==
    /\ op = "score_intervention"
    /\ Truthy(args.environment)
    /\ get_environment_boost(args.query) < Milli(80)
    /\ result = score_intervention(args.query, args.intervention,
                                   args.road_type, None)
                    + Milli(80) - get_environment_boost(args.query)

\* The trigger terms, in the order of ENV_BOOSTS.
EnvTerms ==
    <<"school", "curve", "intersection", "blind", "night", "pedestrian",
      "guardrail", "dark">>

\* The weight of every trigger term that occurs in the lower-cased query,
\* each term counted once.
TriggerWeightSum(query) ==
    SumSeq([k \in DOMAIN EnvTerms |->
               IF \E i \in DOMAIN query.words :
                      Lower(query.words[i]) = EnvTerms[k]
               THEN ENV_BOOSTS[EnvTerms[k]] ELSE 0])

\* C11: get_environment_boost(query) is min(0.25, sum of the weights of
\* the trigger terms that occur in the lower-cased query), each trigger
\* counted once however often it occurs, so it lies in [0, 0.25]; with a
\* non-empty environment argument the environment contribution of
\* score_intervention is max(that boost, 0.08), in [0.08, 0.25].
C11_EnvironmentBoost ==
    /\ op = "get_environment_boost" =>
           /\ result = Milli(Min(250, TriggerWeightSum(args.query)))
           /\ 0 <= result /\ result <= Milli(250)
    /\ (op = "score_intervention" /\ Truthy(args.environment)) =>
           LET text == Milli(Min(250, TriggerWeightSum(args.query)))
               contribution == Max(text, Milli(80))
           IN /\ Milli(80) <= contribution /\ contribution <= Milli(250)
              /\ result =
                     Min(base_similarity(args.query, args.intervention)
                             + road_type_boost(args.intervention, args.road_type)
                             + contribution
                             + priority_weight(args.intervention),
                         One)

\* The trigger "curve" occurs twice and counts once.
C11_Witness ==
    /\ op = "get_environment_boost"
    /\ args.query.words = <<"curve", "curve">>
    /\ result = Milli(80)

\* The road-type boost the claim C12 describes, in thousandths.
ClaimedRoadTypeBoost(intervention, road_type) ==
    LET supplied == road_type # None /\ road_type # ""
        tagged(t) == \E j \in DOMAIN intervention.road_type_tags :
                         Lower(intervention.road_type_tags[j]) = t
    IN IF supplied /\ tagged(Lower(road_type)) THEN 150
       ELSE IF ~supplied /\ tagged("urban") THEN 50
       ELSE 0

\* C12: the road-type boost is exactly 0.15 when a road_type is supplied
\* and equals, case-insensitively, one of the record's road_type_tags;
\* exactly 0.05 when no road_type is supplied and "urban" is among the
\* tags; 0.0 in every other case, a supplied road_type that matches no tag
\* of a record tagged "urban" included.
C12_RoadTypeBoost ==
    op = "score_intervention" =>
        result =
            Min(base_similarity(args.query, args.intervention)
                    + Milli(ClaimedRoadTypeBoost(args.intervention,
                                                 args.road_type))
                    + env_boost(args.query, args.environment)
                    + priority_weight(args.intervention),
                One)

\* A supplied road type that matches no tag of a record tagged "Urban".
C12_Witness ==
    /\ op = "score_intervention"
    /\ args.road_type = "rural"
    /\ args.intervention.road_type_tags = <<"Urban">>
    /\ result < One
    /\ result = base_similarity(args.query, args.intervention)
                    + env_boost(args.query, args.environment)
                    + priority_weight(args.intervention)

\* C13: constructing the retrieval engine over a knowledge base that holds
\* zero records is rejected: no engine over an empty knowledge base reaches
\* the state in which retrieve_and_rank can be called.
C13_NoEngineOverEmptyKB ==
    op = "retrieve_and_rank" => kb # <<>>

C16_ConcurrentCalls ==
    \A t \in DOMAIN thr :
        thr[t].pc = "done" =>
            thr[t].ret = retrieve_and_rank(thr[t].args.query,
                                           thr[t].args.road_type,
                                           thr[t].args.environment,
                                           thr[t].args.top_k)

\* One call has returned a ranking of two records while another call, with
\* other arguments, is in the middle of its loop.
C16_Witness ==
    /\ DOMAIN thr = Threads
    /\ thr[1].pc = "done"
    /\ Len(thr[1].ret) = 2
    /\ thr[1].ret[1].intervention = kb[2]
    /\ thr[2].pc = "loop"
    /\ thr[2].i = 2
    /\ thr[2].args # thr[1].args

\* C17: over the knowledge base of the one record with issue_keywords
\* ["blind curve", "chevron sign"], road_type_tags ["rural"] and priority
\* High, the query "accidents at blind curve, missing chevron signs" with
\* no road_type and no environment gives the record a composite score of
\* at least 0.3, and check_minimum_threshold on the ranked result is True,
\* whatever the matcher returns for texts that are not identical.
C17_BlindCurveScenario ==
    /\ (kb = <<ChevronRecord>> /\ op = "retrieve_and_rank"
            /\ args.query = QChevron) =>
           /\ Len(result) = 1
           /\ result[1].intervention = ChevronRecord
           /\ result[1].score >= Milli(300)
    /\ (kb = <<ChevronRecord>> /\ op = "check_minimum_threshold"
            /\ args.call.query = QChevron) =>
           result = TRUE

\* The matcher that gives 0 to all texts that are not identical: only the
\* token "blind curve" counts, and the gate passes on 0.25 + 0.15 + 0.03.
C17_Witness ==
    /\ kb = <<ChevronRecord>>
    /\ fuzz = [overlap |-> 0, disjoint |-> 0]
    /\ op = "check_minimum_threshold"
    /\ args.call.query = QChevron
    /\ args.scored_items[1].score = Milli(430)
    /\ result = TRUE

\* C15: the engine's methods leave the knowledge base unchanged: after any
\* sequence of queries kb.get_all() has the same records, with the same
\* field values, in the same order.
C15_KBUnchanged == [][kb' = kb]_vars

\* A ranking whose order differs from the order of the knowledge base.
C15_Witness ==
    /\ op = "retrieve_and_rank"
    /\ memo # NoArgs
    /\ memo.between
    /\ Len(kb) = 2
    /\ Len(result) = 2
    /\ result[1].intervention = kb[2]
    /\ result[2].intervention = kb[1]

(* ================ properties of the presentation layers ================ *)

C19_NoMatchIsNot500 ==
    (req # NoArgs /\ req.entry \in Endpoints /\ req.gate = "False") =>
        /\ req.response.status # 500
        /\ req.response #
               HandlerExcept(HTTPException(0, "report generation"))

\* C20: in every presentation entry point that accepts a query, an empty
\* or whitespace-only query is rejected before retrieve_and_rank is
\* invoked: no scoring step ever runs for such a query.
C20_BlankQueryNotScored ==
    (req # NoArgs /\ IsBlank(req.query)) => ~req.engine_called

\* C21: POST /suggest with an empty or whitespace-only query ends with
\* HTTP status 400 and the message "Query cannot be empty": the status
\* raised by the validation step is the status the client receives.
C21_BlankQueryIs400 ==
    (req # NoArgs /\ req.entry = "/suggest" /\ IsBlank(req.query)
        /\ req.pc = "done") =>
        /\ req.response.status = 400
        /\ req.response.cause = NoException

(* ==================== further properties of the engine ================= *)

\* The greatest fuzzy score of a token against the keywords of a record, as
\* a percentage; 0 when there is no keyword.
BestMatch(token, issue_keywords) ==
    IF issue_keywords = <<>> THEN 0
    ELSE CHOOSE m \in 0..100 :
             /\ \E j \in DOMAIN issue_keywords :
                    calculate_fuzzy_score(token, issue_keywords[j]) = m
             /\ \A j \in DOMAIN issue_keywords :
                    calculate_fuzzy_score(token, issue_keywords[j]) <= m

\* C22: the base similarity computed by score_intervention is the
\* arithmetic mean, over the query's tokens (duplicates counted each time),
\* of the maximum fuzzy score of that token against the record's
\* issue_keywords; it is 0.0 when the token list is empty, and a token
\* contributes 0.0 when the record has no keywords.
C22_BaseSimilarityMean ==
    op = "score_intervention" =>
        LET T == tokenize_query(args.query)
            kws == args.intervention.issue_keywords
            base == base_similarity(args.query, args.intervention)
            total == SumSeq([i \in DOMAIN T |-> BestMatch(T[i], kws)])
        IN /\ T = <<>> => base = 0
           /\ kws = <<>> => base = 0
           /\ base * Len(T) = total * 10 * Den
           /\ result = Min(base
                               + road_type_boost(args.intervention,
                                                 args.road_type)
                               + env_boost(args.query, args.environment)
                               + priority_weight(args.intervention),
                           One)

\* "curve, curve, road" against the keyword "curve" with a matcher that
\* gives 0 to "road": the mean of 1, 1 and 0 is 2/3.
C22_Witness ==
    /\ op = "score_intervention"
    /\ args.query = QDuplicates
    /\ args.intervention.issue_keywords = KwCurve
    /\ fuzz.disjoint = 0
    /\ 3 * base_similarity(args.query, args.intervention) = 2 * One
    /\ result < One

\* The word list out is the word list in with stop words deleted and
\* nothing else changed.
RECURSIVE KeepsOrder(_, _)
KeepsOrder(out, in) ==
    IF in = <<>> THEN out = <<>>
    ELSE \/ /\ out # <<>>
            /\ Head(out) = Head(in)
            /\ KeepsOrder(Tail(out), Tail(in))
         \/ /\ Head(in) \in stop_words
            /\ KeepsOrder(out, Tail(in))

\* The words of a list of tokens, in order.
RECURSIVE Flatten(_)
Flatten(tokens) ==
    IF tokens = <<>> THEN <<>> ELSE Head(tokens) \o Flatten(Tail(tokens))

\* C23: for every query, no token returned by tokenize_query is equal to a
\* word of the stop-word set, all tokens are lower-case, and the tokens
\* that remain keep their order of occurrence in the query, duplicates
\* preserved.
C23_TokensFiltered ==
    op = "tokenize_query" =>
        /\ \A i \in DOMAIN result :
               /\ Len(result[i]) \in {1, 2}
               /\ Len(result[i]) = 1 => result[i][1] \notin stop_words
               /\ \A k \in DOMAIN result[i] :
                      Lower(result[i][k]) = result[i][k]
        /\ KeepsOrder(Flatten(result),
                      [i \in DOMAIN args.query.words |->
                          Lower(args.query.words[i])])

\* "curve, curve, road": both occurrences of "curve" are returned, in place.
C23_Witness ==
    /\ op = "tokenize_query"
    /\ args.query = QDuplicates
    /\ result = <<(<<"curve">>), (<<"curve">>), (<<"road">>)>>

\* C24: for two records that differ only in priority and the same query,
\* road_type and environment, score(High) >= score(Medium) >= score(Low),
\* with strict inequality whenever the higher score is below the 1.0 cap.
C24_PriorityMonotone ==
    op = "score_intervention" =>
        LET s(p) == score_intervention(args.query,
                                       WithPriority(args.intervention, p),
                                       args.road_type, args.environment)
        IN /\ args.intervention.priority \in {"High", "Medium", "Low"} =>
                  result = s(args.intervention.priority)
           /\ s("High") >= s("Medium")
           /\ s("Medium") >= s("Low")
           /\ s("High") < One => s("High") > s("Medium")
           /\ s("Medium") < One => s("Medium") > s("Low")

\* A Medium record below the cap: High scores 0.015 more, Low 0.01 less.
C24_Witness ==
    /\ op = "score_intervention"
    /\ args.intervention.priority = "Medium"
    /\ result + Milli(15) < One
    /\ score_intervention(args.query, WithPriority(args.intervention, "High"),
                          args.road_type, args.environment)
           = result + Milli(15)
    /\ score_intervention(args.query, WithPriority(args.intervention, "Low"),
                          args.road_type, args.environment)
           = result - Milli(10)

\* The position in the query of the first word of the k-th token.
StartOf(tokens, k) == 1 + SumSeq([j \in 1..(k - 1) |-> Len(tokens[j])])

\* C25: before stop-word removal, tokenize_query partitions the words of
\* the query left to right into consecutive non-overlapping tokens of one
\* or two words: the word a token starts with is merged with the next word
\* when only whitespace lies between them, every word of the query belongs
\* to exactly one token, and n words separated only by whitespace give
\* ceil(n/2) tokens.
C25_TokenPartition ==
    op = "tokenize_query" =>
        LET words == [i \in DOMAIN args.query.words |->
                         Lower(args.query.words[i])]
            gaps == args.query.gaps
            n == Len(words)
            tokens == FindAll(words, gaps, 1)
        IN /\ Flatten(tokens) = words
           /\ \A k \in DOMAIN tokens :
                  LET i == StartOf(tokens, k)
                  IN /\ Len(tokens[k]) \in {1, 2}
                     /\ Len(tokens[k]) = 2 <=> (i < n /\ gaps[i] = "ws")
           /\ (\A i \in DOMAIN gaps : gaps[i] = "ws") =>
                  Len(tokens) = (n + 1) \div 2
           /\ Len(result) <= Len(tokens)
           /\ \A j \in DOMAIN result :
                  \E k \in DOMAIN tokens : result[j] = tokens[k]

\* "the a is": three words give the two tokens "the a" and "is".
C25_Witness ==
    /\ op = "tokenize_query"
    /\ args.query = QStopWords
    /\ FindAll(args.query.words, args.query.gaps, 1)
           = <<(<<"the", "a">>), (<<"is">>)>>
    /\ result = <<(<<"the", "a">>)>>

\* The position of a record in kb.get_all().
KbIndex(intervention) == CHOOSE i \in DOMAIN kb : kb[i] = intervention

\* C26: records that tie on both composite score and tie-break priority
\* weight appear in the result of retrieve_and_rank in the same relative
\* order as in kb.get_all(): the descending sort is stable.
C26_StableTies ==
    op = "retrieve_and_rank" =>
        \A i, j \in DOMAIN result :
            (/\ i < j
             /\ result[i].score = result[j].score
             /\ tie_break_weight(result[i].intervention)
                    = tie_break_weight(result[j].intervention)) =>
                KbIndex(result[i].intervention)
                    < KbIndex(result[j].intervention)

\* Two Low records with the same score, the one with the greater id first
\* in the knowledge base and first in the result.
C26_Witness ==
    /\ op = "retrieve_and_rank"
    /\ Len(kb) = 2
    /\ kb[1].id > kb[2].id
    /\ kb[1].priority = kb[2].priority
    /\ Len(result) = 2
    /\ result[1].score = result[2].score
    /\ result[1].intervention = kb[1]
    /\ result[2].intervention = kb[2]

\* C27: for every top_k >= 0 and a knowledge base of N records,
\* retrieve_and_rank returns exactly min(top_k, N) entries, each entry is a
\* record of the knowledge base paired with the score score_intervention
\* gives it for this query, and no record appears more than once.
C27_ExactlyTopK ==
    (op = "retrieve_and_rank" /\ args.top_k >= 0) =>
        /\ Len(result) = Min(args.top_k, Len(kb))
        /\ \A j \in DOMAIN result :
               \E i \in DOMAIN kb :
                   /\ result[j].intervention = kb[i]
                   /\ result[j].score = ScoreOfCall(i)
        /\ \A j1, j2 \in DOMAIN result :
               j1 # j2 => result[j1].intervention # result[j2].intervention

\* top_k above the number of records: both records are returned, the second
\* one with a score below the admission threshold.
C27_Witness ==
    /\ op = "retrieve_and_rank"
    /\ Len(kb) = 2
    /\ args.top_k > Len(kb)
    /\ Len(result) = 2
    /\ result[2].score < Milli(300)

\* C28: the text of the explicit environment argument is never scanned for
\* trigger terms: for every query, record and road_type, any two non-empty
\* environment values give the same composite score, and an empty-string
\* environment gives the same score as no environment argument.
C28_EnvironmentTextIgnored ==
    op = "score_intervention" =>
        LET s(environment) ==
                score_intervention(args.query, args.intervention,
                                   args.road_type, environment)
        IN /\ result = s(args.environment)
           /\ args.environment \in {"school zone", "bridge"} =>
                  /\ result = s("school zone")
                  /\ result = s("bridge")
           /\ args.environment \in {None, ""} =>
                  /\ result = s(None)
                  /\ result = s("")

\* The environment "school zone" with a query that names no trigger: the
\* boost is the floor 0.08, not the 0.10 of the trigger "school".
C28_Witness ==
    /\ op = "score_intervention"
    /\ args.environment = "school zone"
    /\ get_environment_boost(args.query) = 0
    /\ result < One
    /\ result = base_similarity(args.query, args.intervention)
                    + road_type_boost(args.intervention, args.road_type)
                    + Milli(80)
                    + priority_weight(args.intervention)
    /\ result = score_intervention(args.query, args.intervention,
                                   args.road_type, "bridge")

(* ================ properties of the knowledge base ===================== *)

\* The rows of the table before row idx that parse, as records, in source
\* order.
RECURSIVE ParsedRows(_, _)
ParsedRows(df, n) ==
    IF n = 0 THEN <<>>
    ELSE IF RowRaises(df[n]) THEN ParsedRows(df, n - 1)
    ELSE Append(ParsedRows(df, n - 1), ParsedRecord(df[n]))

\* The rows reached so far that parse are in kb.get_all(), in source order,
\* and a row that raises is reported and contributes nothing.
SkipsFailingRows ==
    loader # NoArgs =>
        /\ kb = ParsedRows(loader.df, loader.idx - 1)
        /\ \A k \in DOMAIN loader.reported :
               RowRaises(loader.df[loader.reported[k]])
        /\ Len(kb) + Len(loader.reported) = loader.idx - 1

\* C29: while the knowledge base is constructed, a source row whose parsing
\* raises is skipped and reported, and loading continues: every row before
\* and after it that parses is in kb.get_all() in source order, the failing
\* row contributes no record, and no malformed record is left to be
\* discovered during ranking.
C29_NoMalformedRecordLeft ==
    /\ SkipsFailingRows
    /\ op # "AttributeError"

====
